---------------------------- MODULE Spec2Model ----------------------------
(***************************************************************************)
(* cwlogs-rqid-filter: retrieval of paginated CloudWatch log events        *)
(* (fetch_events), the request-id correlation filter (filter_events) and   *)
(* the command that chains them and prints the result (run).               *)
(*                                                                         *)
(* Text is modelled at character level: a message, a request id and a      *)
(* regular expression pattern are sequences of one-character strings.      *)
(***************************************************************************)
EXTENDS Integers, Sequences, FiniteSets

(***************************************************************************)
(* Bounds of the model.                                                    *)
(***************************************************************************)
\* pages the remote source holds for one query window
MaxPages == 3
\* events the remote source holds for one query window, over all its pages
MaxEvents == 3
\* the same two, where fetch_events is called twice
MaxTwicePages == 2
MaxTwiceEvents == 2
\* timestamps are drawn from 1..MaxTs
MaxTs == 2

(***************************************************************************)
(* Generic helpers on sequences.                                           *)
(***************************************************************************)
Range(s) == {s[k] : k \in DOMAIN s}

Rep(c, n) == [k \in 1..n |-> c]

RECURSIVE Flatten(_)
\* the concatenation of a sequence of sequences
Flatten(ss) == IF ss = <<>> THEN <<>> ELSE Head(ss) \o Flatten(Tail(ss))

\* how many times x occurs in s
Count(x, s) == Cardinality({k \in DOMAIN s : s[k] = x})

\* s and t hold the same elements the same number of times
SameBag(s, t) ==
    /\ Len(s) = Len(t)
    /\ \A x \in Range(s) \cup Range(t) : Count(x, s) = Count(x, t)

\* all sequences over S of length at most n
SeqUpTo(S, n) == UNION {[1..k -> S] : k \in 0..n}

(***************************************************************************)
(* Text: str.strip(), REQUEST_ID_REGEX, and the part of Python's re the    *)
(* filter patterns of the model use.                                       *)
(***************************************************************************)
\* ASCII whitespace, what str.strip() with no argument removes
Whitespace == {" ", "\t", "\n", "\r", "\f"}

RECURSIVE LStrip(_)
\* m without its leading whitespace
LStrip(m) ==
    IF m # <<>> /\ Head(m) \in Whitespace THEN LStrip(Tail(m)) ELSE m

RECURSIVE RStrip(_)
\* m without its trailing whitespace
RStrip(m) ==
    IF m # <<>> /\ m[Len(m)] \in Whitespace
    THEN RStrip(SubSeq(m, 1, Len(m) - 1))
    ELSE m

\* str.strip(): drop leading and trailing whitespace
Strip(m) == RStrip(LStrip(m))

\* ([a-f]|\d)
HexLower == {"a", "b", "c", "d", "e", "f",
             "0", "1", "2", "3", "4", "5", "6", "7", "8", "9"}

\* the lengths of the five groups of REQUEST_ID_REGEX
IdGroups == <<8, 4, 4, 4, 12>>

RECURSIVE IdShapeOf(_)
\* the shape the groups give: "x" for a ([a-f]|\d) position, "-" for a dash
IdShapeOf(groups) ==
    IF Len(groups) = 1 THEN Rep("x", Head(groups))
    ELSE Rep("x", Head(groups)) \o <<"-">> \o IdShapeOf(Tail(groups))

REQUEST_ID_REGEX == IdShapeOf(IdGroups)

\* REQUEST_ID_REGEX matches m at position i
RequestIdMatchAt(m, i) ==
    /\ i + Len(REQUEST_ID_REGEX) - 1 <= Len(m)
    /\ \A k \in DOMAIN REQUEST_ID_REGEX :
          IF REQUEST_ID_REGEX[k] = "-"
          THEN m[i + k - 1] = "-"
          ELSE m[i + k - 1] \in HexLower

\* what a failed search returns
NoMatch == <<>>

\* REQUEST_ID_REGEX.search(message), then .group(0): the leftmost match, or NoMatch
RequestIdSearch(m) ==
    LET at == {i \in DOMAIN m : RequestIdMatchAt(m, i)}
    IN  IF at = {} THEN NoMatch
        ELSE LET i == CHOOSE i \in at : \A j \in at : i <= j
             IN  SubSeq(m, i, i + Len(REQUEST_ID_REGEX) - 1)

(***************************************************************************)
(* re.compile(pattern) and regex.search(message), for patterns made of an  *)
(* optional leading ^, literal characters, the wildcard ".", the postfix   *)
(* "*", and an optional trailing $.  A pattern whose parentheses do not    *)
(* balance, or that starts by "*", does not compile.                       *)
(***************************************************************************)
\* what re.compile() gives when it raises re.error
CompileError == [error |-> TRUE]

RECURSIVE ParseAtoms(_, _)
\* the atoms of pattern body b from position k on: a character, starred or not
ParseAtoms(b, k) ==
    IF k > Len(b) THEN <<>>
    ELSE IF k + 1 <= Len(b) /\ b[k + 1] = "*"
         THEN <<[ch |-> b[k], star |-> TRUE]>> \o ParseAtoms(b, k + 2)
         ELSE <<[ch |-> b[k], star |-> FALSE]>> \o ParseAtoms(b, k + 1)

\* re.compile(pattern)
ReCompile(p) ==
    IF \/ Count("(", p) # Count(")", p)
       \/ (Len(p) > 0 /\ p[1] = "*")
    THEN CompileError
    ELSE LET anchorStart == Len(p) > 0 /\ p[1] = "^"
             anchorEnd == Len(p) > 0 /\ p[Len(p)] = "$"
             lo == IF anchorStart THEN 2 ELSE 1
             hi == IF anchorEnd THEN Len(p) - 1 ELSE Len(p)
         IN  [error |-> FALSE,
              anchorStart |-> anchorStart,
              anchorEnd |-> anchorEnd,
              atoms |-> ParseAtoms(SubSeq(p, lo, hi), 1)]

RECURSIVE ReMatchAt(_, _, _, _)
\* atoms k.. of regex re match m from position i on (with backtracking on "*")
ReMatchAt(re, k, m, i) ==
    IF k > Len(re.atoms)
    THEN re.anchorEnd =>
            \/ i = Len(m) + 1
            \/ (i = Len(m) /\ m[i] = "\n")
    ELSE LET a == re.atoms[k]
             here == /\ i <= Len(m)
                     /\ IF a.ch = "." THEN m[i] # "\n" ELSE m[i] = a.ch
         IN  IF a.star
             THEN \/ ReMatchAt(re, k + 1, m, i)
                  \/ (here /\ ReMatchAt(re, k, m, i + 1))
             ELSE here /\ ReMatchAt(re, k + 1, m, i + 1)

\* regex.search(message) is not None: the pattern matches somewhere in m
ReSearch(re, m) ==
    \E i \in 1..(Len(m) + 1) :
        /\ re.anchorStart => i = 1
        /\ ReMatchAt(re, 1, m, i)

(***************************************************************************)
(* The texts the model draws its inputs from.                              *)
(***************************************************************************)
IdA ==
    <<"a", "a", "a", "a", "a", "a", "a", "a", "-", "0", "0", "0", "0", "-",
      "0", "0", "0", "0", "-", "0", "0", "0", "0", "-", "0", "0", "0", "0",
      "0", "0", "0", "0", "0", "0", "0", "0" >>

IdB ==
    <<"b", "b", "b", "b", "b", "b", "b", "b", "-", "1", "1", "1", "1", "-",
      "1", "1", "1", "1", "-", "1", "1", "1", "1", "-", "1", "1", "1", "1",
      "1", "1", "1", "1", "1", "1", "1", "1" >>

\* request A, not an error line, with whitespace around it
MsgStart ==
    <<" ", " ", "i", "d", "=", "a", "a", "a", "a", "a", "a", "a", "a", "-",
      "0", "0", "0", "0", "-", "0", "0", "0", "0", "-", "0", "0", "0", "0",
      "-", "0", "0", "0", "0", "0", "0", "0", "0", "0", "0", "0", "0", " ",
      "s", "t", "a", "r", "t", " ", "\n" >>

\* request A, an error line
MsgError ==
    <<"i", "d", "=", "a", "a", "a", "a", "a", "a", "a", "a", "-", "0", "0",
      "0", "0", "-", "0", "0", "0", "0", "-", "0", "0", "0", "0", "-", "0",
      "0", "0", "0", "0", "0", "0", "0", "0", "0", "0", "0", " ", "E", "R",
      "R", "O", "R", " ", "b", "o", "o", "m" >>

\* request B, not an error line
MsgOther ==
    <<"i", "d", "=", "b", "b", "b", "b", "b", "b", "b", "b", "-", "1", "1",
      "1", "1", "-", "1", "1", "1", "1", "-", "1", "1", "1", "1", "-", "1",
      "1", "1", "1", "1", "1", "1", "1", "1", "1", "1", "1", " ", "s", "t",
      "a", "r", "t" >>

\* an error line with no request id: upper-case hexadecimal is not one
MsgNoId ==
    <<"n", "o", " ", "i", "d", " ", "A", "A", "A", "A", "A", "A", "A", "A",
      "-", "0", "0", "0", "0", "-", "0", "0", "0", "0", "-", "0", "0", "0",
      "0", "-", "0", "0", "0", "0", "0", "0", "0", "0", "0", "0", "0", "0",
      " ", "E", "R", "R", "O", "R" >>

\* an error line of request B that mentions request A after it
MsgTwoIds ==
    <<"b", "b", "b", "b", "b", "b", "b", "b", "-", "1", "1", "1", "1", "-",
      "1", "1", "1", "1", "-", "1", "1", "1", "1", "-", "1", "1", "1", "1",
      "1", "1", "1", "1", "1", "1", "1", "1", " ", "c", "a", "l", "l", "s",
      " ", "a", "a", "a", "a", "a", "a", "a", "a", "-", "0", "0", "0", "0",
      "-", "0", "0", "0", "0", "-", "0", "0", "0", "0", "-", "0", "0", "0",
      "0", "0", "0", "0", "0", "0", "0", "0", "0", " ", "E", "R", "R", "O",
      "R" >>

\* two short messages, for the events of which only the identity matters
MsgA == <<"a">>

MsgB == <<"b">>

\* ERROR
PatError ==
    <<"E", "R", "R", "O", "R" >>

\* nonexistent
PatNonexistent ==
    <<"n", "o", "n", "e", "x", "i", "s", "t", "e", "n", "t" >>

\* .*
PatAll ==
    <<".", "*" >>

\* start$
PatStartEnd ==
    <<"s", "t", "a", "r", "t", "$" >>

\* ( : not a valid pattern
PatBad ==
    <<"(" >>

(***************************************************************************)
(* State.                                                                  *)
(***************************************************************************)
VARIABLES
    remote,               \* the remote source: the pages it holds for the query
    request_parameters,   \* the caller's dict, passed to fetch_events
    call,                 \* which call to fetch_events this is (1 or 2)
    prev,                 \* what the previous call to fetch_events was given and gave
    pc,                   \* where the program is
    next_token,           \* fetch_events: next_token
    events,               \* the event list: accumulated, sorted, then annotated
    queries,              \* history: the parameters of each query of this call
    served,               \* history: the page each query of this call was answered
    searched,             \* fetch_events: the stream names of the last response
    raised,               \* history: how many queries of this call raised
    fetch_result,         \* what fetch_events returned, if it did
    variant,              \* which filter_events runs: the package's or the script's
    args,                 \* the command's arguments
    filter_regex_pattern, \* filter_events: its pattern argument
    filter_input,         \* history: the events filter_events was given
    filter_regex,         \* filter_events: the compiled pattern
    idx,                  \* filter_events, run: position of the running for loop
    matching_request_ids, \* filter_events: matching_request_ids
    filtered_events,      \* filter_events: filtered_events
    filter_result,        \* what filter_events returned, if it did
    printed               \* the lines written to standard output

vars == <<remote, request_parameters, call, prev, pc, next_token, events,
          queries, served, searched, raised, fetch_result, variant, args,
          filter_regex_pattern, filter_input, filter_regex, idx,
          matching_request_ids, filtered_events, filter_result, printed>>

fetchVars == <<next_token, queries, served, searched, raised, fetch_result>>

filterVars == <<variant, filter_regex_pattern, filter_input, filter_regex,
                idx, matching_request_ids, filtered_events, filter_result>>

(***************************************************************************)
(* Values.                                                                 *)
(***************************************************************************)
\* next_token = None, and a response without nextToken
NoToken == 0

\* a function that has not returned (it is running, or it raised)
NoResult == [returned |-> FALSE]

Returned(v) == [returned |-> TRUE, value |-> v]

\* an event as the remote source serves it
Event(ts, m) == [timestamp |-> ts, message |-> m]

Timestamps == 1..MaxTs

\* the request parameters run() builds: no nextToken key
Params0 == [logGroupName |-> "group"]

\* searchedLogStreams of a response
SearchedLogStreams ==
    << [logStreamName |-> "s1", searchedCompletely |-> TRUE],
       [logStreamName |-> "s2", searchedCompletely |-> FALSE] >>

\* the ways to cut a list of length len into k pages: where each page but the
\* last ends
Cuts(len, k) ==
    {c \in [1..(k - 1) -> 0..len] : \A j \in 1..(k - 2) : c[j] <= c[j + 1]}

\* list s cut into pages at c
SplitAt(s, c) ==
    [j \in 1..(Len(c) + 1) |->
        SubSeq(s,
               IF j = 1 THEN 1 ELSE c[j - 1] + 1,
               IF j = Len(c) + 1 THEN Len(s) ELSE c[j])]

\* ps is list s cut into 1..p pages, empty pages included
IsSplitOf(ps, s, p) ==
    \E k \in 1..p : \E c \in Cuts(Len(s), k) : ps = SplitAt(s, c)

\* ps holds events drawn from E, at most n in all, in 1..p pages
HoldsPagesOf(ps, E, n, p) ==
    \E k \in 0..n : \E s \in [1..k -> E] : IsSplitOf(ps, s, p)

(***************************************************************************)
(* The remote source: client.filter_log_events() with the parameters.      *)
(* Token k, returned with page k, asks for page k + 1; the last page comes *)
(* without a token.                                                        *)
(***************************************************************************)
RequestedPage(req) ==
    IF "nextToken" \in DOMAIN req THEN req.nextToken + 1 ELSE 1

FilterLogEvents(req) ==
    LET k == RequestedPage(req)
    IN  [events |-> remote[k],
         nextToken |-> IF k < Len(remote) THEN k ELSE NoToken,
         searchedLogStreams |-> SearchedLogStreams]

(***************************************************************************)
(* fetch_events                                                            *)
(***************************************************************************)
\* lines 59-66: the logStreamName of each stream of the list
StreamNames(streams) == [k \in DOMAIN streams |-> streams[k].logStreamName]

\* request_parameters["nextToken"] = next_token
WithNextToken(req, tok) ==
    [f \in DOMAIN req \cup {"nextToken"} |->
        IF f = "nextToken" THEN tok ELSE req[f]]

\* a bug lines 45-46 could have: the token is never put into the parameters
NextRequest_NoToken(req, tok) == req

\* lines 45-46: the parameters of the next query
NextRequest(req, tok) ==
    IF tok # NoToken THEN WithNextToken(req, tok) ELSE req

RECURSIVE InsertSorted_BeforeEqual(_, _)
\* a bug the sort could have: an unstable sort, which puts e before the
\* elements of its own timestamp
InsertSorted_BeforeEqual(e, s) ==
    IF s = <<>> THEN <<e>>
    ELSE IF Head(s).timestamp < e.timestamp
         THEN <<Head(s)>> \o InsertSorted_BeforeEqual(e, Tail(s))
         ELSE <<e>> \o s

RECURSIVE InsertSorted(_, _)
\* e put into sorted s after every element whose timestamp is not larger
InsertSorted(e, s) ==
    IF s = <<>> THEN <<e>>
    ELSE IF Head(s).timestamp <= e.timestamp
         THEN <<Head(s)>> \o InsertSorted(e, Tail(s))
         ELSE <<e>> \o s

\* a bug line 71 could have: no sort
SortedByTimestamp_Unsorted(s) == s

RECURSIVE SortedByTimestamp(_)
\* sorted(events, key=lambda x: x["timestamp"]): a stable sort
SortedByTimestamp(s) ==
    IF s = <<>> THEN <<>>
    ELSE InsertSorted(s[Len(s)], SortedByTimestamp(SubSeq(s, 1, Len(s) - 1)))

\* a bug line 54 could have: events = response_events
Accumulate_Overwrites(acc, response_events) == response_events

\* line 54: events += response_events
Accumulate(acc, response_events) == acc \o response_events

\* one turn of the while loop whose query succeeds
FetchPage ==
    /\ pc = "query"
    /\ LET req == NextRequest(request_parameters, next_token)
       IN  /\ RequestedPage(req) \in DOMAIN remote
           /\ LET response == FilterLogEvents(req)
              IN  /\ request_parameters' = req
                  /\ queries' = Append(queries, req)
                  /\ served' = Append(served, response.events)
                  /\ events' = Accumulate(events, response.events)
                  /\ next_token' = response.nextToken
                  /\ IF response.nextToken = NoToken
                     THEN /\ searched' =
                                [names |->
                                    StreamNames(response.searchedLogStreams),
                                 complete |->
                                    StreamNames(
                                        SelectSeq(response.searchedLogStreams,
                                                  LAMBDA s : s.searchedCompletely))]
                          /\ pc' = "sort"
                     ELSE /\ searched' = searched
                          /\ pc' = "query"
    /\ UNCHANGED <<remote, call, prev, raised, fetch_result, args, printed>>
    /\ UNCHANGED filterVars

\* a bug lines 44-68 could have: the exception is caught and what was
\* accumulated is returned
FetchPageRaise_ReturnsPartial ==
    /\ pc = "query"
    /\ LET req == NextRequest(request_parameters, next_token)
       IN  /\ request_parameters' = req
           /\ queries' = Append(queries, req)
    /\ raised' = raised + 1
    /\ pc' = "sort"
    /\ UNCHANGED <<remote, call, prev, next_token, events, served, searched,
                   fetch_result, args, printed>>
    /\ UNCHANGED filterVars

\* one turn of the while loop whose query raises: the exception leaves
\* fetch_events, which returns nothing
FetchPageRaise ==
    /\ pc = "query"
    /\ LET req == NextRequest(request_parameters, next_token)
       IN  /\ request_parameters' = req
           /\ queries' = Append(queries, req)
    /\ raised' = raised + 1
    /\ pc' = "fetch_raised"
    /\ UNCHANGED <<remote, call, prev, next_token, events, served, searched,
                   fetch_result, args, printed>>
    /\ UNCHANGED filterVars

\* lines 70-81: sort and return
FetchReturn ==
    /\ pc = "sort"
    /\ events' = SortedByTimestamp(events)
    /\ fetch_result' = Returned(events')
    /\ pc' = "fetched"
    /\ UNCHANGED <<remote, request_parameters, call, prev, next_token, queries,
                   served, searched, raised, args, printed>>
    /\ UNCHANGED filterVars

(***************************************************************************)
(* One call to fetch_events with the parameters run() builds.              *)
(***************************************************************************)
\* the messages of the events the remote source holds
FetchMessages == {MsgA, MsgB}

\* what is the same at the start of every specification
InitCommon ==
    /\ request_parameters = Params0
    /\ call = 1
    /\ prev = NoResult
    /\ next_token = NoToken
    /\ queries = <<>>
    /\ served = <<>>
    /\ searched = NoResult
    /\ raised = 0
    /\ fetch_result = NoResult
    /\ filter_regex = NoResult
    /\ idx = 0
    /\ matching_request_ids = {}
    /\ filtered_events = <<>>
    /\ filter_result = NoResult
    /\ printed = <<>>

InitFetch ==
    /\ InitCommon
    /\ HoldsPagesOf(remote,
                    {Event(ts, m) : ts \in Timestamps, m \in FetchMessages},
                    MaxEvents, MaxPages)
    /\ events = <<>>
    /\ pc = "query"
    /\ variant = "package"
    /\ args = NoResult
    /\ filter_regex_pattern = <<>>
    /\ filter_input = <<>>

NextFetch ==
    \/ FetchPage
    \/ FetchPageRaise
    \/ FetchReturn

SpecFetch == InitFetch /\ [][NextFetch]_vars

(***************************************************************************)
(* filter_events                                                           *)
(***************************************************************************)
\* event["request_id"] = request_id
WithRequestId(e, rid) ==
    [f \in DOMAIN e \cup {"request_id"} |->
        IF f = "request_id" THEN rid ELSE e[f]]

\* line 99, when the pattern compiles
FilterCompile ==
    /\ pc = "compile"
    /\ ReCompile(filter_regex_pattern) # CompileError
    /\ filter_regex' = ReCompile(filter_regex_pattern)
    /\ matching_request_ids' = {}
    /\ idx' = 1
    /\ pc' = "pass1"
    /\ UNCHANGED <<remote, request_parameters, call, prev, args, printed,
                   variant, filter_regex_pattern, filter_input, events,
                   filtered_events, filter_result>>
    /\ UNCHANGED fetchVars

\* a bug line 99 could have: the error is caught and the events are returned
\* unfiltered
FilterCompileRaise_ReturnsUnfiltered ==
    /\ pc = "compile"
    /\ ReCompile(filter_regex_pattern) = CompileError
    /\ filter_result' = Returned(events)
    /\ pc' = "filtered"
    /\ UNCHANGED <<remote, request_parameters, call, prev, args, printed, events,
                   variant, filter_regex_pattern, filter_input, filter_regex,
                   idx, matching_request_ids, filtered_events>>
    /\ UNCHANGED fetchVars

\* line 99, when re.compile raises: the exception leaves filter_events
FilterCompileRaise ==
    /\ pc = "compile"
    /\ ReCompile(filter_regex_pattern) = CompileError
    /\ pc' = "filter_raised"
    /\ UNCHANGED <<remote, request_parameters, call, prev, args, printed, events>>
    /\ UNCHANGED fetchVars
    /\ UNCHANGED filterVars

\* a bug lines 120-121 could have: the set is replaced, not added to
Pass1Step_KeepsLastMatchOnly ==
    /\ pc = "pass1"
    /\ variant = "package"
    /\ idx <= Len(events)
    /\ LET message == Strip(events[idx].message)
           stripped == [events[idx] EXCEPT !.message = message]
           request_id == RequestIdSearch(message)
       IN  IF request_id = NoMatch
           THEN /\ events' = [events EXCEPT ![idx] = stripped]
                /\ UNCHANGED matching_request_ids
           ELSE /\ events' = [events EXCEPT
                                ![idx] = WithRequestId(stripped, request_id)]
                /\ matching_request_ids' =
                      IF ReSearch(filter_regex, message)
                      THEN {request_id}
                      ELSE matching_request_ids
    /\ idx' = idx + 1
    /\ UNCHANGED <<remote, request_parameters, call, prev, args, printed, pc,
                   variant, filter_regex_pattern, filter_input, filter_regex,
                   filtered_events, filter_result>>
    /\ UNCHANGED fetchVars

\* lines 103-121 of the package: one turn of the first for loop
Pass1Step ==
    /\ pc = "pass1"
    /\ variant = "package"
    /\ idx <= Len(events)
    /\ LET message == Strip(events[idx].message)
           stripped == [events[idx] EXCEPT !.message = message]
           request_id == RequestIdSearch(message)
       IN  IF request_id = NoMatch
           THEN /\ events' = [events EXCEPT ![idx] = stripped]
                /\ UNCHANGED matching_request_ids
           ELSE /\ events' = [events EXCEPT
                                ![idx] = WithRequestId(stripped, request_id)]
                /\ matching_request_ids' =
                      IF ReSearch(filter_regex, message)
                      THEN matching_request_ids \cup {request_id}
                      ELSE matching_request_ids
    /\ idx' = idx + 1
    /\ UNCHANGED <<remote, request_parameters, call, prev, args, printed, pc,
                   variant, filter_regex_pattern, filter_input, filter_regex,
                   filtered_events, filter_result>>
    /\ UNCHANGED fetchVars

\* lines 99-112 of the script: one turn of the first for loop; .group(0) on
\* the None of a failed search raises AttributeError
Pass1StepScript ==
    /\ pc = "pass1"
    /\ variant = "script"
    /\ idx <= Len(events)
    /\ LET message == Strip(events[idx].message)
           stripped == [events[idx] EXCEPT !.message = message]
           request_id == RequestIdSearch(message)
       IN  IF request_id = NoMatch
           THEN /\ events' = [events EXCEPT ![idx] = stripped]
                /\ pc' = "filter_raised"
                /\ UNCHANGED <<matching_request_ids, idx>>
           ELSE /\ events' = [events EXCEPT
                                ![idx] = WithRequestId(stripped, request_id)]
                /\ matching_request_ids' =
                      IF ReSearch(filter_regex, message)
                      THEN matching_request_ids \cup {request_id}
                      ELSE matching_request_ids
                /\ idx' = idx + 1
                /\ pc' = pc
    /\ UNCHANGED <<remote, request_parameters, call, prev, args, printed,
                   variant, filter_regex_pattern, filter_input, filter_regex,
                   filtered_events, filter_result>>
    /\ UNCHANGED fetchVars

\* the first for loop ends; line 124
Pass1Exit ==
    /\ pc = "pass1"
    /\ idx > Len(events)
    /\ filtered_events' = <<>>
    /\ idx' = 1
    /\ pc' = "pass2"
    /\ UNCHANGED <<remote, request_parameters, call, prev, args, printed, events,
                   variant, filter_regex_pattern, filter_input, filter_regex,
                   matching_request_ids, filter_result>>
    /\ UNCHANGED fetchVars

\* a bug lines 125-127 could have: an event is retained when its own message
\* matches, not when its identifier is in the set
Pass2Step_OwnMatchOnly ==
    /\ pc = "pass2"
    /\ variant = "package"
    /\ idx <= Len(events)
    /\ LET event == events[idx]
       IN  filtered_events' =
              IF /\ "request_id" \in DOMAIN event
                 /\ ReSearch(filter_regex, event.message)
              THEN Append(filtered_events, event)
              ELSE filtered_events
    /\ idx' = idx + 1
    /\ UNCHANGED <<remote, request_parameters, call, prev, args, printed, pc,
                   events, variant, filter_regex_pattern, filter_input,
                   filter_regex, matching_request_ids, filter_result>>
    /\ UNCHANGED fetchVars

\* lines 125-127 of the package: one turn of the second for loop
Pass2Step ==
    /\ pc = "pass2"
    /\ variant = "package"
    /\ idx <= Len(events)
    /\ LET event == events[idx]
       IN  filtered_events' =
              IF /\ "request_id" \in DOMAIN event
                 /\ event.request_id \in matching_request_ids
              THEN Append(filtered_events, event)
              ELSE filtered_events
    /\ idx' = idx + 1
    /\ UNCHANGED <<remote, request_parameters, call, prev, args, printed, pc,
                   events, variant, filter_regex_pattern, filter_input,
                   filter_regex, matching_request_ids, filter_result>>
    /\ UNCHANGED fetchVars

\* lines 116-118 of the script: one turn of the second for loop;
\* event['request_id'] raises KeyError on an event without the key
Pass2StepScript ==
    /\ pc = "pass2"
    /\ variant = "script"
    /\ idx <= Len(events)
    /\ LET event == events[idx]
       IN  IF "request_id" \in DOMAIN event
           THEN /\ filtered_events' =
                      IF event.request_id \in matching_request_ids
                      THEN Append(filtered_events, event)
                      ELSE filtered_events
                /\ idx' = idx + 1
                /\ pc' = pc
           ELSE /\ pc' = "filter_raised"
                /\ UNCHANGED <<filtered_events, idx>>
    /\ UNCHANGED <<remote, request_parameters, call, prev, args, printed,
                   events, variant, filter_regex_pattern, filter_input,
                   filter_regex, matching_request_ids, filter_result>>
    /\ UNCHANGED fetchVars

\* the second for loop ends; line 131
FilterReturn ==
    /\ pc = "pass2"
    /\ idx > Len(events)
    /\ filter_result' = Returned(filtered_events)
    /\ pc' = "filtered"
    /\ UNCHANGED <<remote, request_parameters, call, prev, args, printed, events,
                   variant, filter_regex_pattern, filter_input, filter_regex,
                   idx, matching_request_ids, filtered_events>>
    /\ UNCHANGED fetchVars

(***************************************************************************)
(* One call to filter_events, of the package or of the script, on a list   *)
(* of events in timestamp order.                                           *)
(***************************************************************************)
FilterMessages == {MsgStart, MsgError, MsgOther, MsgNoId, MsgTwoIds}

Patterns == {PatError, PatNonexistent, PatAll, PatStartEnd, PatBad}

Variants == {"package", "script"}

\* the lists of at most n events with messages drawn from M, the k-th with
\* timestamp k
EventLists(M, n) ==
    {[k \in DOMAIN ms |-> Event(k, ms[k])] : ms \in SeqUpTo(M, n)}

\* filter_events is called with a list of events and a pattern
InitFilterOf(vs) ==
    /\ InitCommon
    /\ remote = <<<<>>>>
    /\ events \in EventLists(FilterMessages, MaxEvents)
    /\ filter_input = events
    /\ filter_regex_pattern \in Patterns
    /\ variant \in vs
    /\ args = NoResult
    /\ pc = "compile"

InitFilter == InitFilterOf({"package"})

NextFilter ==
    \/ FilterCompile
    \/ FilterCompileRaise
    \/ Pass1Step
    \/ Pass1Exit
    \/ Pass2Step
    \/ FilterReturn

\* one call to the package's filter_events
SpecFilter == InitFilter /\ [][NextFilter]_vars

InitFilterVariants == InitFilterOf(Variants)

NextFilterVariants ==
    \/ FilterCompile
    \/ FilterCompileRaise
    \/ Pass1Step
    \/ Pass1StepScript
    \/ Pass1Exit
    \/ Pass2Step
    \/ Pass2StepScript
    \/ FilterReturn

\* one call to filter_events, the package's or the script's
SpecFilterVariants == InitFilterVariants /\ [][NextFilterVariants]_vars

(***************************************************************************)
(* Two successive calls to fetch_events by one caller, who passes the      *)
(* second call either the dict of the first call or a new one; between the *)
(* calls the remote source may hold the same events paged and ordered in   *)
(* another way.                                                            *)
(***************************************************************************)
\* the orders the elements of s can be put in
Perms(s) == {t \in [DOMAIN s -> Range(s)] : SameBag(t, s)}

\* qs holds the events of pages ps, paged and ordered in some way
IsArrangementOf(qs, ps) ==
    \E q \in Perms(Flatten(ps)) : IsSplitOf(qs, q, MaxTwicePages)

\* what the caller keeps of the call that returned
Kept ==
    [remote |-> remote, served |-> served, queries |-> queries,
     result |-> fetch_result, sameObject |-> FALSE]

\* the caller calls fetch_events again with a dict newly built
CallAgainNewDict ==
    /\ pc = "fetched"
    /\ call = 1
    /\ call' = 2
    /\ prev' = Kept
    /\ IsArrangementOf(remote', remote)
    /\ request_parameters' = Params0
    /\ events' = <<>>
    /\ next_token' = NoToken
    /\ queries' = <<>>
    /\ served' = <<>>
    /\ fetch_result' = NoResult
    /\ pc' = "query"
    /\ UNCHANGED <<searched, raised, args, printed>>
    /\ UNCHANGED filterVars

\* the caller calls fetch_events again with the dict it passed before
CallAgainSameDict ==
    /\ pc = "fetched"
    /\ call = 1
    /\ call' = 2
    /\ prev' = [Kept EXCEPT !.sameObject = TRUE]
    /\ IsArrangementOf(remote', remote)
    /\ events' = <<>>
    /\ next_token' = NoToken
    /\ queries' = <<>>
    /\ served' = <<>>
    /\ fetch_result' = NoResult
    /\ pc' = "query"
    /\ UNCHANGED <<request_parameters, searched, raised, args, printed>>
    /\ UNCHANGED filterVars

InitTwice ==
    /\ InitCommon
    /\ HoldsPagesOf(remote,
                    {Event(ts, m) : ts \in Timestamps, m \in FetchMessages},
                    MaxTwiceEvents, MaxTwicePages)
    /\ events = <<>>
    /\ pc = "query"
    /\ variant = "package"
    /\ args = NoResult
    /\ filter_regex_pattern = <<>>
    /\ filter_input = <<>>

NextTwice ==
    \/ FetchPage
    \/ FetchPageRaise
    \/ FetchReturn
    \/ CallAgainNewDict
    \/ CallAgainSameDict

SpecTwice == InitTwice /\ [][NextTwice]_vars

(***************************************************************************)
(* run(): fetch, filter, print.                                            *)
(***************************************************************************)
\* lines 143-151: the line printed for an event
PrintLine(a, event) ==
    IF a.prefix_ts
    THEN [prefix |-> "timestamp", timestamp |-> event.timestamp,
          message |-> event.message]
    ELSE IF a.prefix_iso
         THEN [prefix |-> "iso8601",
               second |-> event.timestamp \div 1000,
               microsecond |-> (event.timestamp % 1000) * 1000,
               message |-> event.message]
         ELSE [prefix |-> "none", message |-> event.message]

\* line 135: filter_events(events, args.filter)
RunFilter ==
    /\ pc = "fetched"
    /\ filter_regex_pattern' = args.filter
    /\ filter_input' = events
    /\ pc' = "compile"
    /\ UNCHANGED <<remote, request_parameters, call, prev, args, printed, events,
                   variant, filter_regex, idx, matching_request_ids,
                   filtered_events, filter_result>>
    /\ UNCHANGED fetchVars

\* line 135, the assignment, and line 140: the for loop starts
RunPrintLoop ==
    /\ pc = "filtered"
    /\ events' = filter_result.value
    /\ idx' = 1
    /\ pc' = "print"
    /\ UNCHANGED <<remote, request_parameters, call, prev, args, printed, variant,
                   filter_regex_pattern, filter_input, filter_regex,
                   matching_request_ids, filtered_events, filter_result>>
    /\ UNCHANGED fetchVars

\* lines 140-151: one turn of the for loop
RunPrint ==
    /\ pc = "print"
    /\ idx <= Len(events)
    /\ printed' = Append(printed, PrintLine(args, events[idx]))
    /\ idx' = idx + 1
    /\ UNCHANGED <<remote, request_parameters, call, prev, args, pc, events,
                   variant, filter_regex_pattern, filter_input, filter_regex,
                   matching_request_ids, filtered_events, filter_result>>
    /\ UNCHANGED fetchVars

\* the for loop ends, and run() with it
RunExit ==
    /\ pc = "print"
    /\ idx > Len(events)
    /\ pc' = "done"
    /\ UNCHANGED <<remote, request_parameters, call, prev, args, printed, events>>
    /\ UNCHANGED fetchVars
    /\ UNCHANGED filterVars

\* an exception of fetch_events or filter_events leaves run(): nothing catches it
RunAbort ==
    /\ pc \in {"fetch_raised", "filter_raised"}
    /\ pc' = "aborted"
    /\ UNCHANGED <<remote, request_parameters, call, prev, args, printed, events>>
    /\ UNCHANGED fetchVars
    /\ UNCHANGED filterVars

\* the log the remote source holds when the command runs, or a first part of it
RunLog ==
    << Event(2, MsgError), Event(1, MsgStart), Event(1001, MsgOther),
       Event(1, MsgNoId) >>

RunPatterns == {PatError, PatNonexistent, PatBad}

\* the parsed arguments: --prefix-timestamp and --prefix-iso exclude each other
Args ==
    {a \in [filter : RunPatterns, prefix_ts : BOOLEAN, prefix_iso : BOOLEAN] :
        ~(a.prefix_ts /\ a.prefix_iso)}

InitRun ==
    /\ InitCommon
    /\ \E n \in 0..Len(RunLog) :
          IsSplitOf(remote, SubSeq(RunLog, 1, n), MaxPages)
    /\ args \in Args
    /\ events = <<>>
    /\ pc = "query"
    /\ variant = "package"
    /\ filter_regex_pattern = <<>>
    /\ filter_input = <<>>

NextRun ==
    \/ FetchPage
    \/ FetchPageRaise
    \/ FetchReturn
    \/ RunFilter
    \/ FilterCompile
    \/ FilterCompileRaise
    \/ Pass1Step
    \/ Pass1Exit
    \/ Pass2Step
    \/ FilterReturn
    \/ RunPrintLoop
    \/ RunPrint
    \/ RunExit
    \/ RunAbort

SpecRun == InitRun /\ [][NextRun]_vars

(***************************************************************************)
(* What fetch_events is to return, stated on what the remote source holds. *)
(***************************************************************************)
RECURSIVE SumOfLens(_)
\* the sum of the per-page event counts
SumOfLens(ps) == IF ps = <<>> THEN 0 ELSE Len(Head(ps)) + SumOfLens(Tail(ps))

\* s is in non-decreasing timestamp order
IsSorted(s) ==
    \A j \in 1..(Len(s) - 1) : s[j].timestamp <= s[j + 1].timestamp

\* the events of s with timestamp t, in the order of s
AtTimestamp(s, t) == SelectSeq(s, LAMBDA e : e.timestamp = t)

\* s and t hold the events of each timestamp in the same order
SameTieOrder(s, t) ==
    \A ts \in {e.timestamp : e \in Range(s) \cup Range(t)} :
        AtTimestamp(s, ts) = AtTimestamp(t, ts)

\* the token the remote source returned with the answer to query k
ReturnedToken(k) == FilterLogEvents(queries[k]).nextToken

\* C3: what fetch_events returns has as many events as the pages held in all,
\* and holds each event as many times as the pages do; every page was served.
C3_Completeness ==
    pc = "fetched" =>
        /\ served = remote
        /\ Len(fetch_result.value) = SumOfLens(remote)
        /\ SameBag(fetch_result.value, Flatten(remote))

\* fetch_events has returned after three pages, one of them empty, that hold
\* one event twice
C3_Witness ==
    /\ pc = "fetched"
    /\ Len(remote) = 3
    /\ \E k \in DOMAIN remote : remote[k] = <<>>
    /\ \E e \in Range(fetch_result.value) : Count(e, Flatten(remote)) = 2

\* C4: what fetch_events returns is in non-decreasing timestamp order, and the
\* events of one timestamp are in the order they were accumulated in.
C4_OrderedAndStable ==
    pc = "fetched" =>
        /\ IsSorted(fetch_result.value)
        /\ SameTieOrder(fetch_result.value, Flatten(remote))

\* fetch_events has returned after two different events of one timestamp were
\* served on different pages, and an event of a smaller timestamp after them
C4_Witness ==
    /\ pc = "fetched"
    /\ Len(remote) = 3
    /\ remote[1] # <<>> /\ remote[2] # <<>> /\ remote[3] # <<>>
    /\ remote[1][1] # remote[2][1]
    /\ remote[1][1].timestamp = remote[2][1].timestamp
    /\ remote[3][1].timestamp < remote[1][1].timestamp

\* C6: once a query has raised, fetch_events has ended without a result: that
\* query is the last one issued, none was retried, nothing is returned.
C6_FetchFailureIsFatal ==
    raised > 0 =>
        /\ raised = 1
        /\ pc = "fetch_raised"
        /\ fetch_result = NoResult
        /\ Len(queries) = Len(served) + 1
        /\ ~ENABLED NextFetch

\* the query for the second of three pages has raised, after a first page
\* that held events
C6_Witness ==
    /\ raised = 1
    /\ Len(remote) = 3
    /\ Len(queries) = 2
    /\ served[1] # <<>>

\* C9: the first query carries the caller's parameters and no token, each later
\* one the token the response before it returned and nothing else changed; the
\* loop goes on after a response with a token and stops at the first one
\* without; there is one query per page, and the next query always asks for a
\* page the remote source holds.
C9_PaginationProtocol ==
    /\ queries # <<>> => queries[1] = Params0
    /\ \A k \in 2..Len(queries) :
          /\ ReturnedToken(k - 1) # NoToken
          /\ queries[k] = [logGroupName |-> Params0.logGroupName,
                           nextToken |-> ReturnedToken(k - 1)]
    /\ pc = "query" =>
          /\ \A k \in DOMAIN served : ReturnedToken(k) # NoToken
          /\ Len(queries) < Len(remote)
          /\ RequestedPage(NextRequest(request_parameters, next_token))
                = Len(queries) + 1
    /\ pc \in {"sort", "fetched"} =>
          /\ served # <<>>
          /\ ReturnedToken(Len(served)) = NoToken
          /\ Len(queries) = Len(remote)
          /\ raised = 0

\* fetch_events has returned after three queries, the third with the token
\* of the second response
C9_Witness ==
    /\ pc = "fetched"
    /\ Len(queries) = 3
    /\ queries[2].nextToken = 1
    /\ queries[3].nextToken = 2

\* C5, as claimed: two retrievals that are served the same events, paged and
\* ordered in any two ways, return the same sequence.
C5_SameResultForAnySplit ==
    (call = 2 /\ pc = "fetched"
        /\ SameBag(Flatten(served), Flatten(prev.served)))
    => fetch_result = prev.result

\* C5, amended: two retrievals that are served the same events, with the
\* events of each timestamp served in the same order, return the same sequence.
C5_SameResultForSameTieOrder ==
    (call = 2 /\ pc = "fetched"
        /\ SameBag(Flatten(served), Flatten(prev.served))
        /\ SameTieOrder(Flatten(served), Flatten(prev.served)))
    => fetch_result = prev.result

\* the second retrieval has returned after it was served the events of the
\* first on other pages and in another order, ties apart
C5_Witness ==
    /\ call = 2
    /\ pc = "fetched"
    /\ SameBag(Flatten(served), Flatten(prev.served))
    /\ SameTieOrder(Flatten(served), Flatten(prev.served))
    /\ Flatten(served) # Flatten(prev.served)
    /\ Len(served) # Len(prev.served)

\* C7: fetch_events leaves the caller's parameters as they were, and a second
\* call with the same dict against the same remote data starts with a query
\* without token and returns what the first call returned.
C7_StatelessAcrossCalls ==
    /\ pc = "fetched" => request_parameters = Params0
    /\ (call = 2 /\ prev.sameObject /\ remote = prev.remote) =>
          /\ queries # <<>> => "nextToken" \notin DOMAIN queries[1]
          /\ pc = "fetched" => fetch_result = prev.result

\* C8: no line is printed before fetch_events and filter_events have both
\* returned; a run that aborts, after a query raised or on a pattern that does
\* not compile, has printed nothing; a run that ends has printed one line for
\* each retained event, in order.
C8_NoPartialOutput ==
    /\ printed # <<>> =>
          /\ fetch_result.returned
          /\ filter_result.returned
          /\ pc \in {"print", "done"}
    /\ (raised > 0 \/ ReCompile(args.filter) = CompileError) =>
          /\ printed = <<>>
          /\ pc \in {"fetch_raised", "filter_raised", "aborted"}
                \/ ~filter_result.returned
    /\ pc \in {"print", "done"} =>
          /\ Len(printed) = idx - 1
          /\ Len(printed) <= Len(filter_result.value)
          /\ \A k \in DOMAIN printed :
                printed[k] = PrintLine(args, filter_result.value[k])
    /\ pc = "done" => Len(printed) = Len(filter_result.value)

\* a run has ended that printed two lines and dropped an event
C8_Witness ==
    /\ pc = "done"
    /\ Len(printed) = 2
    /\ Len(fetch_result.value) > 2

(***************************************************************************)
(* What the filter is to compute, stated on its input.                     *)
(***************************************************************************)
\* message m without the whitespace before its first and after its last
\* character that is not whitespace
Trimmed(m) ==
    LET keep == {k \in DOMAIN m : m[k] \notin Whitespace}
    IN  IF keep = {} THEN <<>>
        ELSE LET lo == CHOOSE k \in keep :
                          \A j \in 1..(k - 1) : m[j] \in Whitespace
                 hi == CHOOSE k \in keep :
                          \A j \in (k + 1)..Len(m) : m[j] \in Whitespace
             IN  SubSeq(m, lo, hi)

\* the identifier an input event carries: the first one in its trimmed message
IdOf(e) == RequestIdSearch(Trimmed(e.message))

\* the trimmed message of input event e matches pattern p
ContentMatches(e, p) == ReSearch(ReCompile(p), Trimmed(e.message))

\* the identifiers of the input events whose trimmed message matches p
MatchingIdsOf(input, p) ==
    {IdOf(e) : e \in {x \in Range(input) :
                        IdOf(x) # NoMatch /\ ContentMatches(x, p)}}

\* input event e as filter_events leaves it: message trimmed, identifier attached
Annotated(e) ==
    IF IdOf(e) = NoMatch
    THEN [timestamp |-> e.timestamp, message |-> Trimmed(e.message)]
    ELSE [timestamp |-> e.timestamp, message |-> Trimmed(e.message),
          request_id |-> IdOf(e)]

RECURSIVE KeptFrom(_, _)
\* the events of input whose identifier is in ids, in input order
KeptFrom(input, ids) ==
    IF input = <<>> THEN <<>>
    ELSE IF IdOf(Head(input)) \in ids
         THEN <<Annotated(Head(input))>> \o KeptFrom(Tail(input), ids)
         ELSE KeptFrom(Tail(input), ids)

\* input event k is in the output of filter_events
Retained(k) == events[k] \in Range(filter_result.value)

\* C1: once filter_events has returned, any two input events that carry the
\* same correlation identifier are both retained or both dropped.
C1_CorrelationClosure ==
    filter_result.returned =>
        \A j, k \in DOMAIN filter_input :
            (IdOf(filter_input[j]) # NoMatch
                /\ IdOf(filter_input[j]) = IdOf(filter_input[k]))
            => (Retained(j) <=> Retained(k))

\* the package's filter has returned two events of one identifier, one whose
\* own message matches the pattern and one whose message does not, and has
\* dropped an event of another identifier
C1_Witness ==
    /\ variant = "package"
    /\ filter_result.returned
    /\ \E j, k, l \in DOMAIN filter_input :
          /\ IdOf(filter_input[j]) # NoMatch
          /\ IdOf(filter_input[j]) = IdOf(filter_input[k])
          /\ ContentMatches(filter_input[j], filter_regex_pattern)
          /\ ~ContentMatches(filter_input[k], filter_regex_pattern)
          /\ Retained(j) /\ Retained(k)
          /\ IdOf(filter_input[l]) # NoMatch
          /\ ~Retained(l)

\* C2: in both variants an event without identifier is dropped silently: the
\* filter raises only on a pattern that does not compile, and what it returns
\* holds no event without identifier and is what it returns on the input
\* without those events.
C2_SilentDropInBothVariants ==
    /\ pc = "filter_raised" => ReCompile(filter_regex_pattern) = CompileError
    /\ filter_result.returned =>
          /\ \A e \in Range(filter_result.value) : "request_id" \in DOMAIN e
          /\ filter_result.value =
                KeptFrom(SelectSeq(filter_input, LAMBDA e : IdOf(e) # NoMatch),
                         MatchingIdsOf(
                            SelectSeq(filter_input, LAMBDA e : IdOf(e) # NoMatch),
                            filter_regex_pattern))

\* C10: the output of filter_events is the input events, in input order, whose
\* identifier is carried by some input event with a matching trimmed message;
\* nothing is retained before the set of matching identifiers is complete.
C10_ExactFilterResult ==
    /\ pc \in {"compile", "pass1"} => filtered_events = <<>>
    /\ pc \in {"compile", "pass1", "pass2"} => ~filter_result.returned
    /\ pc = "pass2" =>
          matching_request_ids = MatchingIdsOf(filter_input, filter_regex_pattern)
    /\ filter_result.returned =>
          /\ filter_result.value =
                KeptFrom(filter_input,
                         MatchingIdsOf(filter_input, filter_regex_pattern))
          /\ filter_input = <<>> => filter_result.value = <<>>
          /\ (\A e \in Range(filter_input) :
                 ~ContentMatches(e, filter_regex_pattern))
             => filter_result.value = <<>>

\* the package's filter has returned a proper, non-empty part of its input that
\* holds an event whose own message does not match the pattern
C10_Witness ==
    /\ variant = "package"
    /\ filter_result.returned
    /\ filter_result.value # <<>>
    /\ Len(filter_result.value) < Len(filter_input)
    /\ \E k \in DOMAIN filter_input :
          /\ Retained(k)
          /\ ~ContentMatches(filter_input[k], filter_regex_pattern)

=============================================================================
